---- MODULE Spec2Model ----
(***************************************************************************)
(* A model of the ai-services core: the StockPredictor model registry and  *)
(* forecast path (services/stock_predictor.py, the module app.py imports)  *)
(* and the PortfolioAnalyzer risk engine (services/portfolio_analyzer.py). *)
(*                                                                         *)
(* Numbers that are fractions in the source are kept as integers in        *)
(* hundredths (0.40 is 40).  Dates are day numbers.  A fitted MinMaxScaler *)
(* is the pair of statistics it was last fitted on; a trained estimator is *)
(* the training run that produced it and the feature width it was fitted   *)
(* on.                                                                     *)
(***************************************************************************)
EXTENDS Integers, Sequences, FiniteSets, TLC

VARIABLES
    bars,        \* symbol -> number of daily bars the data source yields
    models,      \* StockPredictor.models: key -> artifact (or NoArt)
    disk,        \* models/<key>.pkl: key -> pickled artifact (or NoArt)
    scaler,      \* StockPredictor.scaler: the one MinMaxScaler of the instance
    data_cache,  \* StockPredictor.data_cache: symbol -> table (or NoTable)
    runs,        \* number of training runs that published an artifact
    last,        \* the call that finished last: its arguments and its return
    th,          \* request threads: position, arguments, locals, return
    risk_in,     \* arguments of an assess_portfolio_risk call
    risk_out,    \* its return (or NoResult)
    pf_in,       \* a get_portfolio_analysis request and what its data yields
    pf_out,      \* its return (or NoResult)
    rm_in,       \* the return series of a calculate_risk_metrics call
    rm_out,      \* its return (or NoResult)
    call_in,     \* the arguments of a call of a pure helper
    call_out     \* its return (or NoResult)

pvars == <<bars, models, disk, scaler, data_cache, runs, last, th>>
rvars == <<risk_in, risk_out, pf_in, pf_out, rm_in, rm_out, call_in, call_out>>
vars == <<bars, models, disk, scaler, data_cache, runs, last, th,
          risk_in, risk_out, pf_in, pf_out, rm_in, rm_out, call_in, call_out>>

----------------------------------------------------------------------------
(* Bounds of the model *)

MaxRuns == 2
MaxDays == 2
NThreads == 2
MaxHoldings == 2
MaxObservations == 31
MaxBars == 70
MaxRows == 62

(* Program constants *)

LOOKBACK == 60
MIN_WINDOWS == 100
SMA_LONG == 50
TAIL == 60
MOCK_DAYS == 365
DEFAULT_DAYS == 7
MOCK_CONFIDENCE == 75
MIN_OBSERVATIONS == 30
RISK_FREE_RATE == 4
DEFAULT_BETA == 100
RSI_WINDOW == 14

Symbols == {"AAPL", "MSFT"}
ModelTypes == {"linear", "ensemble", "lstm"}
Supported == {"linear", "ensemble"}
Keys == Symbols \X ModelTypes

\* features of prepare_data / predict
features == <<"Open", "High", "Low", "Close", "Volume", "SMA_20", "SMA_50",
              "RSI", "MACD", "BB_upper", "BB_middle", "BB_lower",
              "Price_Change", "Volume_Change">>

\* History lengths the data source may yield: one bar short of the 50-day
\* average (no row survives dropna), one bar short of 100 windows, and
\* exactly 100 windows.  The mock generator's own MOCK_DAYS + 1 daily bars
\* is the history of the concurrent specification.
BarChoices == {SMA_LONG - 1,
               MIN_WINDOWS + LOOKBACK + SMA_LONG - 2,
               MIN_WINDOWS + LOOKBACK + SMA_LONG - 1}

\* Close-price range of a symbol's series (base_price differs per symbol).
CloseRange == [AAPL |-> [lo |-> 100, hi |-> 150], MSFT |-> [lo |-> 200, hi |-> 300]]

NoArt == [none |-> TRUE]
NoTable == [none |-> TRUE]
NoResult == [none |-> TRUE]

----------------------------------------------------------------------------
(* MinMaxScaler *)

Unfit == [fitted |-> FALSE, data_min |-> 0, data_max |-> 0]

\* MinMaxScaler.fit on a table: the per-column min and max of that table.
FitOn(data) ==
    [fitted |-> TRUE,
     data_min |-> CloseRange[data.symbol].lo,
     data_max |-> CloseRange[data.symbol].hi]

\* 'scaler': self.scaler stores a reference to the instance's scaler; an
\* unpickled artifact owns a copy.
SharedRef == [shared |-> TRUE, own |-> Unfit]
OwnCopy(sc) == [shared |-> FALSE, own |-> sc]

\* models[key]['scaler'] as a reader sees it, given the instance's scaler.
Deref(art, sc) == IF art.scaler.shared THEN sc ELSE art.scaler.own

----------------------------------------------------------------------------
(* get_stock_data / prepare_data *)

\* The indicator-augmented table after dropna: the rows whose 50-day window
\* is complete.
Augment(s) ==
    [symbol |-> s,
     rows |-> IF bars[s] >= SMA_LONG THEN bars[s] - (SMA_LONG - 1) ELSE 0,
     last_date |-> bars[s]]

\* Mutant of get_stock_data: the table is computed and stored on every call.
get_stock_data_Recomputes(cache, s) ==
    LET data == Augment(s)
    IN  [data_cache |-> [cache EXCEPT ![s] = data], data |-> data]

\* Lines 37-113: the cached table of the symbol if there is one, else the
\* augmented table, which is stored and returned, empty or not.
get_stock_data(cache, s) ==
    LET data == IF cache[s] # NoTable THEN cache[s] ELSE Augment(s)
    IN  [data_cache |-> [cache EXCEPT ![s] = data], data |-> data]

\* prepare_data: fit_transform refits the instance's scaler in place (fit
\* resets it first, and raises on a table of no rows), then one window per
\* i in range(lookback, len).
prepare_data(data) ==
    IF data.rows = 0
    THEN [scaler |-> Unfit, raised |-> TRUE, n |-> 0]
    ELSE [scaler |-> FitOn(data), raised |-> FALSE,
          n |-> IF data.rows > LOOKBACK THEN data.rows - LOOKBACK ELSE 0]

----------------------------------------------------------------------------
(* Return values *)

Err(msg) == [status |-> "error", error |-> msg, dates |-> <<>>, confidence |-> 0]
Success == [status |-> "success", error |-> "", dates |-> <<>>, confidence |-> 0]

\* The return of predict: 'confidence': 0.75.
Forecast(dates) ==
    [status |-> "forecast", error |-> "", dates |-> dates,
     confidence |-> MOCK_CONFIDENCE]

E_NoSamples == "Found array with 0 sample(s)"
E_Insufficient == "Insufficient data for training"
E_Unsupported == "Unsupported model type"
E_Fit == "fit or evaluation raised"
E_Failed == "Failed to load or train model"
E_NotFitted == "This MinMaxScaler instance is not fitted yet"
E_Features == "X has a different number of features than the estimator expects"
E_Broadcast == "non-broadcastable output operand"

----------------------------------------------------------------------------
(* train_model *)

self == [models |-> models, disk |-> disk, scaler |-> scaler,
         data_cache |-> data_cache, runs |-> runs]

\* Lines 161-164: the mean absolute error the evaluation finds on a symbol's
\* series (price units).
EvaluationMae == [AAPL |-> 5, MSFT |-> 125]

\* The artifact train_model stores under the key.
NewArtifact(run) ==
    [model |-> [run |-> run, n_features_in |-> LOOKBACK * Len(features)],
     scaler |-> SharedRef,
     metrics |-> run,
     last_trained |-> run]

\* joblib.dump serialises the artifact by value: the scaler's state of that
\* moment goes into the file.
Pickle(art, sc) == [art EXCEPT !.scaler = OwnCopy(Deref(art, sc))]

\* Mutant of TrainLocal: the check counts the rows, not the windows.
TrainLocal_ChecksRows(st, s, k, fitOK) ==
    LET g == get_stock_data(st.data_cache, s)
        p == prepare_data(g.data)
        st1 == [st EXCEPT !.data_cache = g.data_cache, !.scaler = p.scaler]
    IN  IF p.raised THEN [self |-> st1, ret |-> Err(E_NoSamples)]
        ELSE IF g.data.rows < MIN_WINDOWS THEN [self |-> st1, ret |-> Err(E_Insufficient)]
        ELSE IF k \notin Supported THEN [self |-> st1, ret |-> Err(E_Unsupported)]
        ELSE IF ~fitOK THEN [self |-> st1, ret |-> Err(E_Fit)]
        ELSE [self |-> st1, ret |-> Success]

\* Lines 135-164: data, framing (the scaler is refitted in place), the
\* window check, the dispatch on model_type, fit and evaluation.  fitOK:
\* whether model.fit and the evaluation return (environment).
TrainLocal(st, s, k, fitOK) ==
    LET g == get_stock_data(st.data_cache, s)
        p == prepare_data(g.data)
        st1 == [st EXCEPT !.data_cache = g.data_cache, !.scaler = p.scaler]
    IN  IF p.raised THEN [self |-> st1, ret |-> Err(E_NoSamples)]
        ELSE IF p.n < MIN_WINDOWS THEN [self |-> st1, ret |-> Err(E_Insufficient)]
        ELSE IF k \notin Supported THEN [self |-> st1, ret |-> Err(E_Unsupported)]
        ELSE IF ~fitOK THEN [self |-> st1, ret |-> Err(E_Fit)]
        ELSE [self |-> st1, ret |-> Success]

\* Lines 167-173: self.models[model_key] = {...}.
Publish(st, key) ==
    [st EXCEPT !.models[key] = NewArtifact(st.runs + 1), !.runs = st.runs + 1]

\* Line 176: joblib.dump(self.models[model_key], ...).
Dump(st, key) ==
    [st EXCEPT !.disk[key] = Pickle(st.models[key], st.scaler)]

train_model(st, s, k, fitOK) ==
    LET t == TrainLocal(st, s, k, fitOK)
    IN  IF t.ret.status = "error" THEN t
        ELSE [self |-> Dump(Publish(t.self, <<s, k>>), <<s, k>>), ret |-> Success]

----------------------------------------------------------------------------
(* predict *)

\* Mutant of Lookup: the persisted artifact is not looked for.
Lookup_SkipsDisk(st, key) ==
    IF st.models[key] # NoArt THEN "memory" ELSE "train"

\* Lines 198-206: memory, then disk, then train_model.
Lookup(st, key) ==
    IF st.models[key] # NoArt THEN "memory"
    ELSE IF st.disk[key] # NoArt THEN "disk"
    ELSE "train"

Load(st, key) == [st EXCEPT !.models[key] = st.disk[key]]

Acquire(st, s, k, fitOK) ==
    LET key == <<s, k>>
        where == Lookup(st, key)
    IN  IF where = "memory" THEN st
        ELSE IF where = "disk" THEN Load(st, key)
        ELSE train_model(st, s, k, fitOK).self

\* scaled_data[-1:].reshape(1, -1): one row of features.
InputWidth == 1 * Len(features)

\* np.array(predictions).reshape(-1, 1): one column.
OutputWidth == 1

\* Lines 211-221: the recent rows, scaled with models[key]['scaler'].
ScaleRecent(st, key) ==
    LET g == get_stock_data(st.data_cache, key[1])
        st1 == [st EXCEPT !.data_cache = g.data_cache]
        recent == IF g.data.rows < TAIL THEN g.data.rows ELSE TAIL
        sc == Deref(st1.models[key], st1.scaler)
    IN  IF ~sc.fitted THEN [self |-> st1, ret |-> Err(E_NotFitted), seen |-> sc]
        ELSE IF recent = 0 THEN [self |-> st1, ret |-> Err(E_NoSamples), seen |-> sc]
        ELSE [self |-> st1, ret |-> Success, seen |-> sc]

\* Lines 223-257: the loop on models[key]['model'], the inverse transform
\* with models[key]['scaler'], the dates.
Project(st, key, days) ==
    LET art == st.models[key]
        data == get_stock_data(st.data_cache, key[1]).data
        pred_dates == [i \in 1..days |-> data.last_date + i]
    IN  IF days > 0 /\ InputWidth # art.model.n_features_in THEN Err(E_Features)
        ELSE IF ~Deref(art, st.scaler).fitted THEN Err(E_NotFitted)
        ELSE IF days <= 0 THEN Err(E_NoSamples)
        ELSE IF OutputWidth # Len(features) THEN Err(E_Broadcast)
        ELSE Forecast(pred_dates)

\* path: where the artifact came from (memory, disk, train).
predict(st, s, days, k, fitOK) ==
    LET key == <<s, k>>
        path == Lookup(st, key)
        st1 == Acquire(st, s, k, fitOK)
        sr == ScaleRecent(st1, key)
    IN  IF st1.models[key] = NoArt
        THEN [self |-> st1, ret |-> Err(E_Failed), path |-> path]
        ELSE IF sr.ret.status = "error"
             THEN [self |-> sr.self, ret |-> sr.ret, path |-> path]
        ELSE [self |-> sr.self, ret |-> Project(sr.self, key, days), path |-> path]

----------------------------------------------------------------------------
(* PortfolioAnalyzer.assess_portfolio_risk *)

\* A message is the sequence of its words; 'x in str(risk_factors)' is a
\* search for the words of x, in order and adjacent, in some message.
F_VolHigh == <<"High", "volatility", "(>40%)">>
F_VolModHigh == <<"Moderate-high", "volatility", "(25-40%)">>
F_VolMod == <<"Moderate", "volatility", "(15-25%)">>
F_VolLow == <<"Low", "volatility", "(<15%)">>
F_DdVeryHigh == <<"Very", "high", "maximum", "drawdown", "(>35%)">>
F_DdHigh == <<"High", "maximum", "drawdown", "(20-35%)">>
F_DdMod == <<"Moderate", "maximum", "drawdown", "(10-20%)">>
F_DdLow == <<"Low", "maximum", "drawdown", "(<10%)">>
F_SecHigh == <<"High", "sector", "concentration", "(>50%", "in", "one", "sector)">>
F_SecMod == <<"Moderate", "sector", "concentration", "(30-50%", "in", "one", "sector)">>
F_SecLow == <<"Well-diversified", "across", "sectors">>
F_CorrHigh == <<"High", "correlation", "between", "holdings", "(>0.7)">>
F_CorrMod == <<"Moderate", "correlation", "between", "holdings", "(0.5-0.7)">>
F_CorrLow == <<"Low", "correlation", "between", "holdings", "(<0.5)">>
F_SharpeExcellent == <<"Excellent", "risk-adjusted", "returns", "(Sharpe", ">", "1.0)">>
F_SharpeGood == <<"Good", "risk-adjusted", "returns", "(Sharpe", "0.5-1.0)">>
F_SharpePositive == <<"Positive", "risk-adjusted", "returns", "(Sharpe", "0-0.5)">>
F_SharpePoor == <<"Poor", "risk-adjusted", "returns", "(Sharpe", "<", "0)">>

R_Volatility == "Consider adding defensive stocks or bonds to reduce volatility"
R_StopLoss == "Implement stop-loss strategies to limit downside risk"
R_Sectors == "Diversify across different sectors to reduce concentration risk"
R_Uncorrelated == "Add uncorrelated assets (bonds, commodities, international stocks)"
R_Rebalance == "Review portfolio allocation and consider rebalancing"
R_Aggressive == "Consider reducing position sizes or adding defensive assets"
R_Conservative == "Portfolio appears well-balanced for conservative investors"

Abs(x) == IF x < 0 THEN -x ELSE x

RECURSIVE SumSeq(_)
SumSeq(q) == IF q = <<>> THEN 0 ELSE Head(q) + SumSeq(Tail(q))

SumOf(f) ==
    LET RECURSIVE Acc(_)
        Acc(D) == IF D = {} THEN 0
                  ELSE LET x == CHOOSE y \in D : TRUE IN f[x] + Acc(D \ {x})
    IN  Acc(DOMAIN f)

MaxOf(f) == CHOOSE m \in {f[x] : x \in DOMAIN f} : \A x \in DOMAIN f : f[x] <= m

\* portfolio_risk.get(name, 0)
Get(portfolio_risk, name) ==
    IF name \in DOMAIN portfolio_risk THEN portfolio_risk[name] ELSE 0

\* Mutant of VolatilityCheck: the thresholds are inclusive.
VolatilityCheck_AtLeast(volatility) ==
    IF volatility >= 40 THEN [add |-> 3, factor |-> F_VolHigh, aggressive |-> TRUE]
    ELSE IF volatility >= 25 THEN [add |-> 2, factor |-> F_VolModHigh, aggressive |-> FALSE]
    ELSE IF volatility >= 15 THEN [add |-> 1, factor |-> F_VolMod, aggressive |-> FALSE]
    ELSE [add |-> 0, factor |-> F_VolLow, aggressive |-> FALSE]

\* Lines 305-318.  aggressive: the branch also sets risk_level.
VolatilityCheck(volatility) ==
    IF volatility > 40 THEN [add |-> 3, factor |-> F_VolHigh, aggressive |-> TRUE]
    ELSE IF volatility > 25 THEN [add |-> 2, factor |-> F_VolModHigh, aggressive |-> FALSE]
    ELSE IF volatility > 15 THEN [add |-> 1, factor |-> F_VolMod, aggressive |-> FALSE]
    ELSE [add |-> 0, factor |-> F_VolLow, aggressive |-> FALSE]

\* Lines 320-333.
DrawdownCheck(max_drawdown) ==
    IF max_drawdown > 35 THEN [add |-> 3, factor |-> F_DdVeryHigh, aggressive |-> TRUE]
    ELSE IF max_drawdown > 20 THEN [add |-> 2, factor |-> F_DdHigh, aggressive |-> FALSE]
    ELSE IF max_drawdown > 10 THEN [add |-> 1, factor |-> F_DdMod, aggressive |-> FALSE]
    ELSE [add |-> 0, factor |-> F_DdLow, aggressive |-> FALSE]

\* Mutant of SectorCheck: the thresholds are inclusive.
SectorCheck_AtLeast(sector_allocation) ==
    LET mx == IF DOMAIN sector_allocation = {} THEN 0 ELSE MaxOf(sector_allocation)
        sm == IF DOMAIN sector_allocation = {} THEN 1 ELSE SumOf(sector_allocation)
    IN  IF 10 * mx >= 5 * sm THEN [add |-> 2, factor |-> F_SecHigh]
        ELSE IF 10 * mx >= 3 * sm THEN [add |-> 1, factor |-> F_SecMod]
        ELSE [add |-> 0, factor |-> F_SecLow]

\* Lines 335-344: max(values) / sum(values) against 0.5 and 0.3, or 0 for
\* an empty allocation.
SectorCheck(sector_allocation) ==
    LET mx == IF DOMAIN sector_allocation = {} THEN 0 ELSE MaxOf(sector_allocation)
        sm == IF DOMAIN sector_allocation = {} THEN 1 ELSE SumOf(sector_allocation)
    IN  IF 10 * mx > 5 * sm THEN [add |-> 2, factor |-> F_SecHigh]
        ELSE IF 10 * mx > 3 * sm THEN [add |-> 1, factor |-> F_SecMod]
        ELSE [add |-> 0, factor |-> F_SecLow]

\* Lines 346-355: the mean of the entries above the diagonal, triu; the mean
\* of no entries is NaN, and every comparison with NaN is false.
CorrelationCheck(triu) ==
    LET nan == Len(triu) = 0
    IN  IF ~nan /\ SumSeq(triu) > 70 * Len(triu) THEN [add |-> 2, factor |-> F_CorrHigh]
        ELSE IF ~nan /\ SumSeq(triu) > 50 * Len(triu) THEN [add |-> 1, factor |-> F_CorrMod]
        ELSE [add |-> 0, factor |-> F_CorrLow]

\* Lines 357-367.
SharpeCheck(sharpe_ratio) ==
    IF sharpe_ratio > 100 THEN [add |-> 0, factor |-> F_SharpeExcellent]
    ELSE IF sharpe_ratio > 50 THEN [add |-> 0, factor |-> F_SharpeGood]
    ELSE IF sharpe_ratio > 0 THEN [add |-> 0, factor |-> F_SharpePositive]
    ELSE [add |-> 1, factor |-> F_SharpePoor]

\* Mutant of RiskLevel: the level a factor check set is kept.
RiskLevel_KeepsFactorLevel(risk_score, level) ==
    IF level = "aggressive" \/ risk_score >= 6 THEN "aggressive"
    ELSE IF risk_score >= 3 THEN "moderate"
    ELSE "conservative"

\* Lines 369-375.  level: risk_level as the factor checks left it.
RiskLevel(risk_score, level) ==
    IF risk_score >= 6 THEN "aggressive"
    ELSE IF risk_score >= 3 THEN "moderate"
    ELSE "conservative"

\* pat occurs in msg at adjacent positions.
Occurs(pat, msg) ==
    \E i \in 1..(Len(msg) - Len(pat) + 1) :
        \A j \in 1..Len(pat) : msg[i + j - 1] = pat[j]

\* pat in str(risk_factors)
InFactors(pat, risk_factors) ==
    \E n \in 1..Len(risk_factors) : Occurs(pat, risk_factors[n])

generate_risk_recommendations(risk_factors, risk_level) ==
    (IF InFactors(<<"High", "volatility">>, risk_factors) THEN <<R_Volatility>> ELSE <<>>)
    \o (IF InFactors(<<"High", "maximum", "drawdown">>, risk_factors) THEN <<R_StopLoss>> ELSE <<>>)
    \o (IF InFactors(<<"High", "sector", "concentration">>, risk_factors) THEN <<R_Sectors>> ELSE <<>>)
    \o (IF InFactors(<<"High", "correlation">>, risk_factors) THEN <<R_Uncorrelated>> ELSE <<>>)
    \o (IF InFactors(<<"Poor", "risk-adjusted", "returns">>, risk_factors) THEN <<R_Rebalance>> ELSE <<>>)
    \o (IF risk_level = "aggressive" THEN <<R_Aggressive>>
        ELSE IF risk_level = "conservative" THEN <<R_Conservative>>
        ELSE <<>>)

\* Mutant of assess_portfolio_risk: an undefined average correlation (no
\* pair of holdings) appends no correlation factor.
assess_portfolio_risk_SkipsUndefined(portfolio_risk, sector_allocation, triu) ==
    LET v == VolatilityCheck(Get(portfolio_risk, "volatility"))
        d == DrawdownCheck(Abs(Get(portfolio_risk, "max_drawdown")))
        s == SectorCheck(sector_allocation)
        c == CorrelationCheck(triu)
        h == SharpeCheck(Get(portfolio_risk, "sharpe_ratio"))
        risk_score == v.add + d.add + s.add + c.add + h.add
        risk_factors == IF Len(triu) = 0
                        THEN <<v.factor, d.factor, s.factor, h.factor>>
                        ELSE <<v.factor, d.factor, s.factor, c.factor, h.factor>>
        risk_level == RiskLevel(risk_score,
                        IF v.aggressive \/ d.aggressive THEN "aggressive" ELSE "moderate")
    IN  [risk_score |-> risk_score,
         risk_level |-> risk_level,
         risk_factors |-> risk_factors,
         recommendations |-> generate_risk_recommendations(risk_factors, risk_level)]

assess_portfolio_risk(portfolio_risk, sector_allocation, triu) ==
    LET v == VolatilityCheck(Get(portfolio_risk, "volatility"))
        d == DrawdownCheck(Abs(Get(portfolio_risk, "max_drawdown")))
        s == SectorCheck(sector_allocation)
        c == CorrelationCheck(triu)
        h == SharpeCheck(Get(portfolio_risk, "sharpe_ratio"))
        risk_score == v.add + d.add + s.add + c.add + h.add
        risk_factors == <<v.factor, d.factor, s.factor, c.factor, h.factor>>
        risk_level == RiskLevel(risk_score,
                        IF v.aggressive \/ d.aggressive THEN "aggressive" ELSE "moderate")
    IN  [risk_score |-> risk_score,
         risk_level |-> risk_level,
         risk_factors |-> risk_factors,
         recommendations |-> generate_risk_recommendations(risk_factors, risk_level)]

----------------------------------------------------------------------------
(* PortfolioAnalyzer.calculate_portfolio_metrics / get_portfolio_analysis *)

\* get_stock_info: sectors.get(symbol, 'Technology')
sectors == [AAPL |-> "Technology", MSFT |-> "Technology", JNJ |-> "Healthcare"]

\* calculate_risk_metrics returns {} below 30 observations.
EmptyMetrics == [empty |-> TRUE]

\* Mutant of calculate_risk_metrics: a series of exactly 30 observations is
\* refused too.
calculate_risk_metrics_Above(returns) ==
    IF returns.n <= MIN_OBSERVATIONS THEN EmptyMetrics
    ELSE [mean_return |-> returns.mean,
          volatility |-> returns.std,
          sharpe_ratio |-> IF returns.std > 0
                           THEN (100 * (returns.mean - RISK_FREE_RATE)) \div returns.std
                           ELSE 0,
          max_drawdown |-> returns.trough,
          var_95 |-> returns.var_95,
          expected_shortfall |-> returns.es_95,
          skewness |-> returns.skewness,
          kurtosis |-> returns.kurtosis,
          beta |-> DEFAULT_BETA]

\* Lines 183-225.  returns: a return series as the statistics pandas, numpy
\* and scipy compute on it (n observations; annualised mean and standard
\* deviation; the trough of the drawdown curve; the tail and shape figures).
calculate_risk_metrics(returns) ==
    IF returns.n < MIN_OBSERVATIONS THEN EmptyMetrics
    ELSE [mean_return |-> returns.mean,
          volatility |-> returns.std,
          sharpe_ratio |-> IF returns.std > 0
                           THEN (100 * (returns.mean - RISK_FREE_RATE)) \div returns.std
                           ELSE 0,
          max_drawdown |-> returns.trough,
          var_95 |-> returns.var_95,
          expected_shortfall |-> returns.es_95,
          skewness |-> returns.skewness,
          kurtosis |-> returns.kurtosis,
          beta |-> DEFAULT_BETA]

E_NoData == "No portfolio data provided"
E_NoMetrics == "Unable to calculate portfolio metrics"
E_AnalysisFailed == "Portfolio analysis failed"

\* The holdings whose get_real_stock_data returned a table with Returns.
Resolved(portfolio_data) == SelectSeq(portfolio_data, LAMBDA item : item.usable)

Values(portfolio_data) == [i \in 1..Len(portfolio_data) |-> portfolio_data[i].value]

\* Lines 270-276: sector -> summed value, over every holding.
SectorAllocation(portfolio_data) ==
    LET present == {sectors[portfolio_data[i].symbol] : i \in 1..Len(portfolio_data)}
    IN  [sec \in present |->
            SumSeq(Values(SelectSeq(portfolio_data,
                                    LAMBDA item : sectors[item.symbol] = sec)))]

\* The place of the pair (i, j), i < j, among the entries above the
\* diagonal of an n by n matrix, row by row.
PairIndex(i, j, n) == (i - 1) * n - ((i - 1) * i) \div 2 + (j - i)

\* Lines 262-268: sum of weights[i]^2 * var_i over the variance of the
\* weighted sum of the columns, or 1 when that variance is not positive.
\* value: the holdings' values (the weights are value / total, and total^2
\* and the factor 252 are common to both sides of the quotient); sd: the
\* columns' standard deviations; triu: their correlations in hundredths.
\* The quotient is kept as the pair of numerator and denominator.
DiversificationRatio(value, sd, triu) ==
    LET n == Len(value)
        weighted_individual_variance ==
            100 * SumSeq([i \in 1..n |-> value[i] * value[i] * sd[i] * sd[i]])
        cross == SumSeq([i \in 1..n |->
                    SumSeq([j \in 1..n |->
                        IF i < j
                        THEN value[i] * value[j] * sd[i] * sd[j]
                             * triu[PairIndex(i, j, n)]
                        ELSE 0])])
        portfolio_variance == weighted_individual_variance + 2 * cross
    IN  IF portfolio_variance > 0
        THEN [num |-> weighted_individual_variance, den |-> portfolio_variance]
        ELSE [num |-> 1, den |-> 1]

\* Lines 227-297.  env: what the tables yield (the weighted return series,
\* the columns' standard deviations and the correlations above the
\* diagonal).  The weights are one per holding, the columns one per resolved
\* holding: returns_df * weights raises when the two lengths differ.
\* Line 260: returns_df.corr(), one row and one column per resolved holding,
\* in hundredths; a series correlates fully with itself.
CorrelationMatrix(n, triu) ==
    [i \in 1..n |->
        [j \in 1..n |->
            IF i = j THEN 100
            ELSE IF i < j THEN triu[PairIndex(i, j, n)]
            ELSE triu[PairIndex(j, i, n)]]]

calculate_portfolio_metrics(portfolio_data, env) ==
    LET total_value == SumSeq(Values(portfolio_data))
        weights == [i \in 1..Len(portfolio_data) |->
                        [num |-> portfolio_data[i].value, den |-> total_value]]
        all_returns == Resolved(portfolio_data)
        portfolio_risk == calculate_risk_metrics(env.portfolio_returns)
        sector_allocation == SectorAllocation(portfolio_data)
    IN  IF Len(portfolio_data) = 0 THEN [kind |-> "empty"]
        ELSE IF Len(all_returns) = 0 THEN [kind |-> "empty"]
        ELSE IF Len(weights) # Len(all_returns) THEN [kind |-> "raised"]
        ELSE [kind |-> "metrics",
              total_value |-> total_value,
              weights |-> weights,
              portfolio_risk |-> portfolio_risk,
              columns |-> Len(all_returns),
              correlation_matrix |-> CorrelationMatrix(Len(all_returns), env.triu),
              diversification_ratio |->
                  DiversificationRatio(Values(portfolio_data), env.sd, env.triu),
              sector_allocation |-> sector_allocation,
              risk_assessment |-> assess_portfolio_risk(portfolio_risk,
                                    sector_allocation, env.triu)]

\* Lines 410-457.
get_portfolio_analysis(portfolio_data, env) ==
    LET portfolio_metrics == calculate_portfolio_metrics(portfolio_data, env)
    IN  IF Len(portfolio_data) = 0 THEN [status |-> "error", error |-> E_NoData]
        ELSE IF portfolio_metrics.kind = "raised"
             THEN [status |-> "error", error |-> E_AnalysisFailed]
        ELSE IF portfolio_metrics.kind = "empty"
             THEN [status |-> "error", error |-> E_NoMetrics]
        ELSE [status |-> "analysis",
              error |-> "",
              number_of_stocks |-> Len(portfolio_data),
              portfolio_metrics |-> portfolio_metrics,
              individual_analysis |-> Len(Resolved(portfolio_data)),
              risk_assessment |-> portfolio_metrics.risk_assessment,
              sector_allocation |-> portfolio_metrics.sector_allocation,
              correlation_matrix |-> portfolio_metrics.correlation_matrix]

----------------------------------------------------------------------------
(* The sequential specification: one call at a time *)

Commit(st) ==
    /\ models' = st.models
    /\ disk' = st.disk
    /\ scaler' = st.scaler
    /\ data_cache' = st.data_cache
    /\ runs' = st.runs

Call(op, s, k, days, ret, path) ==
    [op |-> op, symbol |-> s, kind |-> k, days |-> days, ret |-> ret, path |-> path]

NoCall == Call("none", "", "", 0, Err(""), "")

Threads == 1..NThreads

Idle == [pc |-> "idle", symbol |-> "", kind |-> "", days |-> 0,
         seen |-> Unfit, ret |-> Err("")]

InitSelf ==
    /\ models = [key \in Keys |-> NoArt]
    /\ disk = [key \in Keys |-> NoArt]
    /\ scaler = Unfit
    /\ data_cache = [s \in Symbols |-> NoTable]
    /\ runs = 0
    /\ last = NoCall
    /\ th = [t \in Threads |-> Idle]

NoPortfolio ==
    /\ risk_in = NoResult
    /\ risk_out = NoResult
    /\ pf_in = NoResult
    /\ pf_out = NoResult
    /\ rm_in = NoResult
    /\ rm_out = NoResult
    /\ call_in = NoResult
    /\ call_out = NoResult

Init ==
    /\ bars \in [Symbols -> BarChoices]
    /\ InitSelf
    /\ NoPortfolio

TrainModel ==
    \E s \in Symbols, k \in ModelTypes, fitOK \in BOOLEAN :
        LET r == train_model(self, s, k, fitOK)
        IN  /\ r.self.runs <= MaxRuns
            /\ Commit(r.self)
            /\ last' = Call("train_model", s, k, 0, r.ret, "train")
            /\ UNCHANGED <<bars, th, rvars>>

Predict ==
    \E s \in Symbols, k \in ModelTypes, days \in 0..MaxDays, fitOK \in BOOLEAN :
        LET r == predict(self, s, days, k, fitOK)
        IN  /\ r.self.runs <= MaxRuns
            /\ Commit(r.self)
            /\ last' = Call("predict", s, k, days, r.ret, r.path)
            /\ UNCHANGED <<bars, th, rvars>>

\* A process restart: __init__ builds a fresh instance; models/ stays.
Restart ==
    /\ models' = [key \in Keys |-> NoArt]
    /\ scaler' = Unfit
    /\ data_cache' = [s \in Symbols |-> NoTable]
    /\ last' = Call("restart", "", "", 0, Success, "")
    /\ UNCHANGED <<bars, disk, runs, th, rvars>>

Next == TrainModel \/ Predict \/ Restart

Spec == Init /\ [][Next]_vars

----------------------------------------------------------------------------
(* The concurrent specification: predict requests served by threads.  Each *)
(* step is a stretch of predict or train_model between two accesses to the *)
(* shared registry, scaler or disk.                                        *)

InitConc ==
    /\ bars = [s \in Symbols |-> MOCK_DAYS + 1]
    /\ InitSelf
    /\ NoPortfolio

Key(t) == <<th[t].symbol, th[t].kind>>

\* Lines 194-206, up to the call of train_model.
PLookup(t) ==
    /\ th[t].pc = "idle"
    /\ \E s \in Symbols, k \in ModelTypes :
        LET where == Lookup(self, <<s, k>>)
        IN  /\ Commit(IF where = "disk" THEN Load(self, <<s, k>>) ELSE self)
            /\ th' = [th EXCEPT ![t] = [Idle EXCEPT
                        !.pc = IF where = "train" THEN "train" ELSE "scale",
                        !.symbol = s, !.kind = k, !.days = DEFAULT_DAYS]]
    /\ UNCHANGED <<bars, last, rvars>>

\* train_model, lines 135-164; its except clause returns to predict.
TPrepare(t) ==
    /\ th[t].pc = "train"
    /\ \E fitOK \in BOOLEAN :
        LET r == TrainLocal(self, th[t].symbol, th[t].kind, fitOK)
        IN  /\ Commit(r.self)
            /\ th' = [th EXCEPT ![t].pc =
                        IF r.ret.status = "error" THEN "scale" ELSE "publish"]
    /\ UNCHANGED <<bars, last, rvars>>

\* train_model, lines 167-173.
TPublish(t) ==
    /\ th[t].pc = "publish"
    /\ runs < MaxRuns
    /\ Commit(Publish(self, Key(t)))
    /\ th' = [th EXCEPT ![t].pc = "dump"]
    /\ UNCHANGED <<bars, last, rvars>>

\* train_model, lines 175-183.
TDump(t) ==
    /\ th[t].pc = "dump"
    /\ Commit(Dump(self, Key(t)))
    /\ th' = [th EXCEPT ![t].pc = "scale"]
    /\ UNCHANGED <<bars, last, rvars>>

\* predict, lines 208-221.
PScale(t) ==
    /\ th[t].pc = "scale"
    /\ IF models[Key(t)] = NoArt
       THEN /\ th' = [th EXCEPT ![t] = [Idle EXCEPT !.ret = Err(E_Failed)]]
            /\ UNCHANGED <<models, disk, scaler, data_cache, runs>>
       ELSE LET sr == ScaleRecent(self, Key(t))
            IN  /\ Commit(sr.self)
                /\ th' = [th EXCEPT ![t] =
                            IF sr.ret.status = "error"
                            THEN [Idle EXCEPT !.ret = sr.ret]
                            ELSE [@ EXCEPT !.pc = "rollout", !.seen = sr.seen]]
    /\ UNCHANGED <<bars, last, rvars>>

\* predict, lines 223-265.
PRollout(t) ==
    /\ th[t].pc = "rollout"
    /\ th' = [th EXCEPT ![t] =
                [Idle EXCEPT !.ret = Project(self, Key(t), th[t].days)]]
    /\ UNCHANGED <<bars, models, disk, scaler, data_cache, runs, last, rvars>>

NextConc ==
    \E t \in Threads :
        \/ PLookup(t)
        \/ TPrepare(t)
        \/ TPublish(t)
        \/ TDump(t)
        \/ PScale(t)
        \/ PRollout(t)

SpecConc == InitConc /\ [][NextConc]_vars

----------------------------------------------------------------------------
(* The risk classifier on its own: Init draws the arguments of one call of *)
(* assess_portfolio_risk, Assess makes the call.                           *)

VolatilityChoices == {15, 16, 25, 26, 40, 41}
DrawdownChoices == {-10, -11, -20, -21, -35, -36}
SharpeChoices == {-5, 0, 1, 51, 101}

RiskChoices ==
    {EmptyMetrics} \cup
    [volatility : VolatilityChoices, max_drawdown : DrawdownChoices,
     sharpe_ratio : SharpeChoices]

SectorChoices ==
    {[x \in {} |-> 0],
     [x \in {"Technology"} |-> 100],
     [Technology |-> 80, Healthcare |-> 20],
     [Technology |-> 51, Healthcare |-> 49],
     [Technology |-> 50, Healthcare |-> 50],
     [Technology |-> 50, Healthcare |-> 30, Energy |-> 20],
     [Technology |-> 31, Healthcare |-> 29, Energy |-> 20, Industrials |-> 20],
     [Technology |-> 30, Healthcare |-> 30, Energy |-> 20, Industrials |-> 20]}

TriuChoices ==
    {<<>>, <<-20>>, <<50>>, <<51>>, <<70>>, <<71>>, <<90, 50, 70>>, <<90, 51, 70>>}

InitRisk ==
    /\ bars = [s \in Symbols |-> MOCK_DAYS + 1]
    /\ InitSelf
    /\ risk_in \in [portfolio_risk : RiskChoices,
                    sector_allocation : SectorChoices,
                    triu : TriuChoices]
    /\ risk_out = NoResult
    /\ pf_in = NoResult
    /\ pf_out = NoResult
    /\ rm_in = NoResult
    /\ rm_out = NoResult
    /\ call_in = NoResult
    /\ call_out = NoResult

Assess ==
    /\ risk_out = NoResult
    /\ risk_out' = assess_portfolio_risk(risk_in.portfolio_risk,
                                         risk_in.sector_allocation, risk_in.triu)
    /\ UNCHANGED <<pvars, risk_in, pf_in, pf_out, rm_in, rm_out, call_in, call_out>>

NextRisk == Assess

SpecRisk == InitRisk /\ [][NextRisk]_vars

----------------------------------------------------------------------------
(* Portfolio analysis requests: Init draws the holdings, which of them the *)
(* data source resolves, and what the resolved tables yield; Analyze makes *)
(* the call.                                                               *)

PortfolioSymbols == {"AAPL", "MSFT", "JNJ"}
ValueChoices == {1, 4}
CorrChoices == {40, 100}
SdChoices == {1, 2}

\* usable: whether get_real_stock_data returns a table for the holding's
\* symbol (the same answer for the same symbol).
Holdings ==
    {h \in UNION {[1..n -> [symbol : PortfolioSymbols, value : ValueChoices,
                            usable : BOOLEAN]] : n \in 0..MaxHoldings} :
        \A i, j \in 1..Len(h) :
            h[i].symbol = h[j].symbol => h[i].usable = h[j].usable}

\* Weighted return series: one of 29 aligned observations, a calm one and a
\* rough one.
PortfolioReturnsChoices ==
    {[n |-> MIN_OBSERVATIONS - 1, mean |-> 14, std |-> 10, trough |-> -5,
      var_95 |-> -2, es_95 |-> -3, skewness |-> 0, kurtosis |-> 0],
     [n |-> MOCK_DAYS, mean |-> 14, std |-> 10, trough |-> -5,
      var_95 |-> -2, es_95 |-> -3, skewness |-> 0, kurtosis |-> 0],
     [n |-> MOCK_DAYS, mean |-> 2, std |-> 41, trough |-> -36,
      var_95 |-> -5, es_95 |-> -7, skewness |-> -100, kurtosis |-> 300]}

\* The correlation matrix has one row per resolved holding.
Pairs(n) == (n * (n - 1)) \div 2

InitPortfolio ==
    /\ bars = [s \in Symbols |-> MOCK_DAYS + 1]
    /\ InitSelf
    /\ risk_in = NoResult
    /\ risk_out = NoResult
    /\ \E h \in Holdings, r \in PortfolioReturnsChoices :
         \E c \in [1..Pairs(Len(Resolved(h))) -> CorrChoices],
            d \in [1..Len(Resolved(h)) -> SdChoices] :
            pf_in = [holdings |-> h, portfolio_returns |-> r, triu |-> c, sd |-> d]
    /\ pf_out = NoResult
    /\ rm_in = NoResult
    /\ rm_out = NoResult
    /\ call_in = NoResult
    /\ call_out = NoResult

Analyze ==
    /\ pf_out = NoResult
    /\ pf_out' = get_portfolio_analysis(pf_in.holdings, pf_in)
    /\ UNCHANGED <<pvars, risk_in, risk_out, pf_in, rm_in, rm_out, call_in, call_out>>

NextPortfolio == Analyze

SpecPortfolio == InitPortfolio /\ [][NextPortfolio]_vars

----------------------------------------------------------------------------
(* The series cache: calls of get_stock_data, alone and from train_model   *)
(* and predict, while the data source gains bars.                          *)

\* The table get_stock_data returns.
Table(data) == [status |-> "table", table |-> data]

\* History lengths the data source reaches by gaining one bar.
TickTargets == {SMA_LONG, MIN_WINDOWS + LOOKBACK + SMA_LONG - 1}

InitCache ==
    /\ bars \in [Symbols -> {x - 1 : x \in TickTargets}]
    /\ InitSelf
    /\ NoPortfolio

GetStockData ==
    \E s \in Symbols :
        LET g == get_stock_data(data_cache, s)
        IN  /\ data_cache' = g.data_cache
            /\ last' = Call("get_stock_data", s, "", 0, Table(g.data),
                            IF data_cache[s] # NoTable THEN "cache" ELSE "computed")
            /\ UNCHANGED <<bars, models, disk, scaler, runs, th, rvars>>

\* A day passes: datetime.now() moves and the source has one more bar.
Tick ==
    \E s \in Symbols :
        /\ bars[s] + 1 \in TickTargets
        /\ bars' = [bars EXCEPT ![s] = @ + 1]
        /\ last' = Call("tick", s, "", 0, Success, "")
        /\ UNCHANGED <<models, disk, scaler, data_cache, runs, th, rvars>>

NextCache == GetStockData \/ Tick \/ TrainModel \/ Predict

SpecCache == InitCache /\ [][NextCache]_vars

----------------------------------------------------------------------------
(* Requests racing to populate the series cache: each step of a thread is  *)
(* a stretch of get_stock_data between two accesses to data_cache.         *)

\* Lines 43-77: the generated frame, OHLCV columns only.
Raw(s) == [symbol |-> s, rows |-> bars[s], last_date |-> bars[s], stage |-> "raw"]

\* Lines 79-103: the indicator columns are added to the local frame; the
\* rows of incomplete windows hold NaN.
AddIndicators(data) == [data EXCEPT !.stage = "augmented"]

\* Line 106: data = data.dropna(), a new frame without the NaN rows.
DropNa(data) ==
    [symbol |-> data.symbol,
     rows |-> IF data.rows >= SMA_LONG THEN data.rows - (SMA_LONG - 1) ELSE 0,
     last_date |-> data.last_date]

\* Mutant of StepAfter: the frame is stored before it is augmented.
StepAfter_StoresFirst(pc) ==
    CASE pc = "generate" -> "store"
      [] pc = "store" -> "augment"
      [] pc = "augment" -> "dropna"
      [] pc = "dropna" -> "idle"

\* The order of the statements of get_stock_data after a cache miss.
StepAfter(pc) ==
    CASE pc = "generate" -> "augment"
      [] pc = "augment" -> "dropna"
      [] pc = "dropna" -> "store"
      [] pc = "store" -> "idle"

\* A request thread in get_stock_data: its position, its symbol, its local
\* frame and what it returned.
Caller == [pc |-> "idle", symbol |-> "", data |-> NoTable, ret |-> NoTable]

\* The thread moves on; reaching the end of the function it returns its frame.
Advance(c, data) ==
    IF StepAfter(c.pc) = "idle"
    THEN [Caller EXCEPT !.symbol = c.symbol, !.ret = data]
    ELSE [c EXCEPT !.pc = StepAfter(c.pc), !.data = data]

InitRace ==
    /\ bars = [s \in Symbols |-> MOCK_DAYS + 1]
    /\ models = [key \in Keys |-> NoArt]
    /\ disk = [key \in Keys |-> NoArt]
    /\ scaler = Unfit
    /\ data_cache = [s \in Symbols |-> NoTable]
    /\ runs = 0
    /\ last = NoCall
    /\ th = [t \in Threads |-> Caller]
    /\ NoPortfolio

\* Lines 39-41: the cache check; a hit returns the cached frame.
GCheck(t) ==
    /\ th[t].pc = "idle"
    /\ \E s \in Symbols :
        th' = [th EXCEPT ![t] =
                 IF data_cache[s] # NoTable
                 THEN [Caller EXCEPT !.symbol = s, !.ret = data_cache[s]]
                 ELSE [Caller EXCEPT !.symbol = s, !.pc = "generate"]]
    /\ UNCHANGED <<bars, models, disk, scaler, data_cache, runs, last, rvars>>

GGenerate(t) ==
    /\ th[t].pc = "generate"
    /\ th' = [th EXCEPT ![t] = Advance(@, Raw(@.symbol))]
    /\ UNCHANGED <<bars, models, disk, scaler, data_cache, runs, last, rvars>>

GAugment(t) ==
    /\ th[t].pc = "augment"
    /\ th' = [th EXCEPT ![t] = Advance(@, AddIndicators(@.data))]
    /\ UNCHANGED <<bars, models, disk, scaler, data_cache, runs, last, rvars>>

GDropNa(t) ==
    /\ th[t].pc = "dropna"
    /\ th' = [th EXCEPT ![t] = Advance(@, DropNa(@.data))]
    /\ UNCHANGED <<bars, models, disk, scaler, data_cache, runs, last, rvars>>

\* Line 108: self.data_cache[symbol] = data.
GStore(t) ==
    /\ th[t].pc = "store"
    /\ data_cache' = [data_cache EXCEPT ![th[t].symbol] = th[t].data]
    /\ th' = [th EXCEPT ![t] = Advance(@, @.data)]
    /\ UNCHANGED <<bars, models, disk, scaler, runs, last, rvars>>

NextRace ==
    \E t \in Threads :
        \/ GCheck(t)
        \/ GGenerate(t)
        \/ GAugment(t)
        \/ GDropNa(t)
        \/ GStore(t)

SpecRace == InitRace /\ [][NextRace]_vars

----------------------------------------------------------------------------
(* The indicator columns as a function of the price series.  A series is   *)
(* n bars whose closes move from one bar to the next, except for one       *)
(* stretch of flat_len equal closes starting at bar flat_from.  Row i is   *)
(* dropped when one of its indicator columns is NaN.                       *)

\* Lines 84-86: delta = Close.diff() is 0 inside the flat stretch; the NaN
\* of row 0 fails both comparisons of where(), which puts 0 in its place.
ZeroDelta(series, i) ==
    \/ i = 0
    \/ (series.flat_from < i /\ i < series.flat_from + series.flat_len)

\* Lines 85-86: rolling(window=14).mean() of the gains and of the losses is
\* NaN until the window is complete.
WindowComplete(i, window) == i >= window - 1

\* Both averages of row i are taken over zeros only.
FlatWindow(series, i) ==
    \A j \in (i - (RSI_WINDOW - 1))..i : ZeroDelta(series, j)

\* No close has moved before the window of row i: the rolling sums have
\* only ever added zeros.
NothingMovedBefore(series, i) ==
    \A j \in 0..(i - RSI_WINDOW) : ZeroDelta(series, j)

\* Lines 87-88: rs = gain / loss and RSI = 100 - 100 / (1 + rs).  A zero
\* loss with a positive gain gives inf and RSI 100; 0 / 0 gives NaN.  After
\* closes that moved, the rolling sums of a flat window are exactly zero or
\* keep a rounding residue, depending on the pandas build (series.residue).
RsiIsNaN(series, i) ==
    \/ ~WindowComplete(i, RSI_WINDOW)
    \/ /\ FlatWindow(series, i)
       /\ (NothingMovedBefore(series, i) \/ ~series.residue)

\* Lines 80-81, 95-103: SMA_50 has the longest window; pct_change is NaN on
\* row 0 only.
OtherColumnIsNaN(i) == ~WindowComplete(i, SMA_LONG)

\* Lines 79-106: the rows that data.dropna() keeps.
Indicators(series) ==
    [n |-> series.n,
     kept |-> {i \in 0..(series.n - 1) :
                 ~OtherColumnIsNaN(i) /\ ~RsiIsNaN(series, i)}]

PriceSeries ==
    [n : 0..MaxBars, flat_from : {0, 20, 52}, flat_len : {1, 14, 15, 60},
     residue : BOOLEAN]

InitAugment ==
    /\ bars = [s \in Symbols |-> MOCK_DAYS + 1]
    /\ InitSelf
    /\ risk_in = NoResult
    /\ risk_out = NoResult
    /\ pf_in = NoResult
    /\ pf_out = NoResult
    /\ rm_in = NoResult
    /\ rm_out = NoResult
    /\ call_in \in PriceSeries
    /\ call_out = NoResult

AddTechnicalIndicators ==
    /\ call_out = NoResult
    /\ call_out' = Indicators(call_in)
    /\ UNCHANGED <<pvars, risk_in, risk_out, pf_in, pf_out, rm_in, rm_out, call_in>>

SpecAugment == InitAugment /\ [][AddTechnicalIndicators]_vars

----------------------------------------------------------------------------
(* prepare_data as a function of the number of rows of its table and of    *)
(* its lookback; rows are named by their position, from 0.                 *)

RECURSIVE WindowsFrom(_, _, _)
\* Lines 126-128: for i in range(lookback, len(scaled_data)), X gets the
\* rows i-lookback .. i-1 and y the close of row i.
WindowsFrom(i, rows, lookback) ==
    IF i >= rows
    THEN <<>>
    ELSE <<[X |-> [j \in 1..lookback |-> i - lookback + j - 1], y |-> i]>>
            \o WindowsFrom(i + 1, rows, lookback)

\* Lines 115-130: fit_transform raises ValueError on a table without rows;
\* any other table goes through the loop and the arrays are returned.
Windows(rows, lookback) ==
    IF rows = 0
    THEN [raised |-> TRUE, windows |-> <<>>]
    ELSE [raised |-> FALSE, windows |-> WindowsFrom(lookback, rows, lookback)]

InitFrame ==
    /\ bars = [s \in Symbols |-> MOCK_DAYS + 1]
    /\ InitSelf
    /\ risk_in = NoResult
    /\ risk_out = NoResult
    /\ pf_in = NoResult
    /\ pf_out = NoResult
    /\ rm_in = NoResult
    /\ rm_out = NoResult
    /\ call_in \in [rows : 0..MaxRows, lookback : {1, 2, LOOKBACK}]
    /\ call_out = NoResult

PrepareData ==
    /\ call_out = NoResult
    /\ call_out' = Windows(call_in.rows, call_in.lookback)
    /\ UNCHANGED <<pvars, risk_in, risk_out, pf_in, pf_out, rm_in, rm_out, call_in>>

SpecFrame == InitFrame /\ [][PrepareData]_vars

----------------------------------------------------------------------------
(* The forecast loop of predict as a function of the table's rows, of the  *)
(* number of days and of the width the estimator was fitted on.  A scaled  *)
(* value is named by its row in recent_data (from 1) and its feature; a    *)
(* prediction by its step.                                                 *)

Cell(row, f) == [row |-> row, feature |-> f]

Pred(k) == [pred |-> k]

\* Line 226: current_data = scaled_data[-1:].reshape(1, -1), the last row.
LastRow(recent) == [f \in 1..Len(features) |-> Cell(recent, f)]

\* Line 233: np.roll(current_data, -1, axis=1) moves every value one place
\* to the left along the features; the first comes round to the end.
Roll(v) == [f \in 1..Len(v) |-> v[(f % Len(v)) + 1]]

\* Line 234: current_data[0, -1] = pred.
WriteLast(v, x) == [v EXCEPT ![Len(v)] = x]

RECURSIVE ForecastLoop(_, _, _, _)
\* Lines 227-234: model.predict raises when the input's width is not the
\* width the estimator was fitted on; inputs lists what predict was given.
ForecastLoop(k, days, current_data, width) ==
    IF k > days
    THEN [raised |-> FALSE, inputs |-> <<>>]
    ELSE IF Len(current_data) # width
    THEN [raised |-> TRUE, inputs |-> <<current_data>>]
    ELSE LET rest == ForecastLoop(k + 1, days,
                                  WriteLast(Roll(current_data), Pred(k)), width)
         IN  [raised |-> rest.raised, inputs |-> <<current_data>> \o rest.inputs]

\* Lines 213-234: the tail of the table is scaled (transform raises on a
\* table without rows) and the loop starts from its last row.
Rollout(rows, days, width) ==
    LET recent == IF rows < TAIL THEN rows ELSE TAIL
    IN  IF recent = 0
        THEN [raised |-> TRUE, inputs |-> <<>>, recent |-> recent]
        ELSE [raised |-> ForecastLoop(1, days, LastRow(recent), width).raised,
              inputs |-> ForecastLoop(1, days, LastRow(recent), width).inputs,
              recent |-> recent]

InitRollout ==
    /\ bars = [s \in Symbols |-> MOCK_DAYS + 1]
    /\ InitSelf
    /\ risk_in = NoResult
    /\ risk_out = NoResult
    /\ pf_in = NoResult
    /\ pf_out = NoResult
    /\ rm_in = NoResult
    /\ rm_out = NoResult
    \* an estimator is fitted on one row of features or, by train_model, on
    \* the flattened windows
    /\ call_in \in [rows : 0..MaxRows, days : 0..MaxDays,
                    width : {Len(features), LOOKBACK * Len(features)}]
    /\ call_out = NoResult

MakePredictions ==
    /\ call_out = NoResult
    /\ call_out' = Rollout(call_in.rows, call_in.days, call_in.width)
    /\ UNCHANGED <<pvars, risk_in, risk_out, pf_in, pf_out, rm_in, rm_out, call_in>>

SpecRollout == InitRollout /\ [][MakePredictions]_vars

----------------------------------------------------------------------------
(* The risk metrics on their own: Init draws a return series, Measure      *)
(* makes the call of calculate_risk_metrics.                               *)

SeriesChoices ==
    [n : 0..MaxObservations, mean : {-10, 4, 30}, std : {0, 10, 41},
     trough : {0, -21, -36}, var_95 : {-3}, es_95 : {-4},
     skewness : {0}, kurtosis : {0}]

InitMetrics ==
    /\ bars = [s \in Symbols |-> MOCK_DAYS + 1]
    /\ InitSelf
    /\ risk_in = NoResult
    /\ risk_out = NoResult
    /\ pf_in = NoResult
    /\ pf_out = NoResult
    /\ rm_in \in SeriesChoices
    /\ rm_out = NoResult
    /\ call_in = NoResult
    /\ call_out = NoResult

Measure ==
    /\ rm_out = NoResult
    /\ rm_out' = calculate_risk_metrics(rm_in)
    /\ UNCHANGED <<pvars, risk_in, risk_out, pf_in, pf_out, rm_in, call_in, call_out>>

NextMetrics == Measure

SpecMetrics == InitMetrics /\ [][NextMetrics]_vars

----------------------------------------------------------------------------
(* Claims *)

LastKey == <<last.symbol, last.kind>>

\* The artifact of a key as a reader sees it: models[key]['scaler'] read
\* through the reference.
View(art, sc) ==
    IF art = NoArt THEN NoArt
    ELSE [model |-> art.model, scaler |-> Deref(art, sc),
          metrics |-> art.metrics, last_trained |-> art.last_trained]

\* The windows framing yields for a symbol: rows after the 49 dropped, less
\* the lookback.
WindowsOf(s) ==
    LET rows == IF bars[s] >= 50 THEN bars[s] - 49 ELSE 0
    IN  IF rows > 60 THEN rows - 60 ELSE 0

\* C1: for every input of assess_portfolio_risk the returned risk_level is
\* decided by the returned risk_score alone: aggressive iff score >= 6,
\* moderate iff 3 <= score <= 5, conservative iff score <= 2.
C1_LevelFromScore ==
    risk_out # NoResult =>
        /\ (risk_out.risk_level = "aggressive" <=> risk_out.risk_score >= 6)
        /\ (risk_out.risk_level = "moderate" <=> risk_out.risk_score \in 3..5)
        /\ (risk_out.risk_level = "conservative" <=> risk_out.risk_score <= 2)

\* C1's case: a factor check set the level to aggressive (volatility above
\* 0.40) and the score is below 6.
C1_Witness ==
    /\ risk_out # NoResult
    /\ risk_in.portfolio_risk # EmptyMetrics
    /\ risk_in.portfolio_risk.volatility > 40
    /\ risk_out.risk_score < 6
    /\ risk_out.risk_level = "moderate"

\* C2: a train_model call that fails leaves the live artifact of its key as
\* it was, in memory (estimator, scaler, metrics, timestamp) and on disk; a
\* call that succeeds leaves under the key one artifact of the new run,
\* whose scaler is the one fitted in that run, in memory and on disk.
C2_FailedTrainKeepsArtifact ==
    [][last'.op = "train_model" =>
        LET key == <<last'.symbol, last'.kind>>
        IN  IF last'.ret.status = "error"
            THEN /\ View(models'[key], scaler') = View(models[key], scaler)
                 /\ disk'[key] = disk[key]
            ELSE /\ models'[key] # NoArt
                 /\ models'[key].model.run = runs'
                 /\ Deref(models'[key], scaler') = FitOn(Augment(last'.symbol))
                 /\ View(disk'[key], scaler') = View(models'[key], scaler')]_vars

\* C3: a predict request that has read the scaler of its key's artifact has
\* read the statistics fitted on that key's symbol, whatever other requests
\* are doing; and once every request has returned, each live artifact and
\* each persisted one holds the scaler of its own training run.
C3_ReadersSeeOneRun ==
    /\ \A t \in Threads :
         th[t].pc = "rollout" => th[t].seen = FitOn(Augment(th[t].symbol))
    /\ (\A t \in Threads : th[t].pc = "idle") =>
         \A key \in Keys :
            /\ models[key] # NoArt =>
                 Deref(models[key], scaler) = FitOn(Augment(key[1]))
            /\ disk[key] # NoArt =>
                 Deref(disk[key], scaler) = FitOn(Augment(key[1]))

\* C4: get_portfolio_analysis returns an error exactly when no holding is
\* resolved by the data source; with some holdings resolved and some not it
\* returns an analysis.
C4_PartialFailureIsExclusion ==
    pf_out # NoResult =>
        (pf_out.status = "error" <=> Len(Resolved(pf_in.holdings)) = 0)

\* C5: when predict has to train and the training fails, predict returns
\* the error train_model failed with.
C5_TrainingErrorPropagates ==
    [][(/\ last'.op = "predict"
        /\ last'.path = "train"
        /\ models'[<<last'.symbol, last'.kind>>] = NoArt) =>
        /\ last'.ret.status = "error"
        /\ \E fitOK \in BOOLEAN :
             LET r == train_model(self, last'.symbol, last'.kind, fitOK)
             IN  r.ret.status = "error" /\ last'.ret.error = r.ret.error]_vars

C7_EveryKindForecasts ==
    (/\ last.op = "predict"
     /\ last.kind \in {"linear", "ensemble", "lstm"}
     /\ last.days > 0
     /\ WindowsOf(last.symbol) >= 100) =>
        last.ret.status = "forecast"

\* C8: for days = N > 0 and a key with a live artifact, predict returns N
\* dates, the N days that follow the last date of the symbol's history.
C8_NextNDays ==
    (/\ last.op = "predict"
     /\ last.days > 0
     /\ models[LastKey] # NoArt) =>
        /\ last.ret.status = "forecast"
        /\ Len(last.ret.dates) = last.days
        /\ \A i \in 1..Len(last.ret.dates) :
             last.ret.dates[i] = bars[last.symbol] + i

\* C9: predict with days = 0 returns an error and neither trains nor
\* changes the registry, in memory or on disk.
C9_ZeroDaysRejected ==
    [][(last'.op = "predict" /\ last'.days = 0) =>
        /\ last'.ret.status = "error"
        /\ models' = models
        /\ disk' = disk
        /\ runs' = runs]_vars

\* C10: train_model on a symbol whose framing yields fewer than 100 windows
\* returns an error, leaves the key's entry of the registry as it was and
\* writes no file.
C10_FewWindowsFail ==
    [][(last'.op = "train_model" /\ WindowsOf(last'.symbol) < 100) =>
        LET key == <<last'.symbol, last'.kind>>
        IN  /\ last'.ret.status = "error"
            /\ models'[key] = models[key]
            /\ disk'[key] = disk[key]
            /\ runs' = runs]_vars

\* C10's case: train_model has failed on 99 windows, and the key has no
\* artifact in memory or on disk.
C10_Witness ==
    /\ last.op = "train_model"
    /\ last.kind \in Supported
    /\ WindowsOf(last.symbol) = 99
    /\ last.ret = Err(E_Insufficient)
    /\ models[LastKey] = NoArt
    /\ disk[LastKey] = NoArt

\* The arguments of the assess_portfolio_risk call, as the checks read them.
InVolatility == Get(risk_in.portfolio_risk, "volatility")
InDrawdown == Abs(Get(risk_in.portfolio_risk, "max_drawdown"))
InSharpe == Get(risk_in.portfolio_risk, "sharpe_ratio")
InDefined == Len(risk_in.triu) > 0
InCorrSum == SumSeq(risk_in.triu)
InPairs == Len(risk_in.triu)
InTop == IF DOMAIN risk_in.sector_allocation = {} THEN 0
         ELSE MaxOf(risk_in.sector_allocation)
InTotal == IF DOMAIN risk_in.sector_allocation = {} THEN 1
           ELSE SumOf(risk_in.sector_allocation)

Elements(q) == {q[i] : i \in 1..Len(q)}

\* C11: risk_score is the sum of the contributions of the five checks, each
\* computed from its own argument alone; risk_factors holds exactly five
\* messages, one per check, in the order volatility, drawdown, sector,
\* correlation, Sharpe; and the score lies in 0..11.
C11_ScoreIsSumOfFive ==
    risk_out # NoResult =>
        LET v == VolatilityCheck(InVolatility)
            d == DrawdownCheck(InDrawdown)
            s == SectorCheck(risk_in.sector_allocation)
            c == CorrelationCheck(risk_in.triu)
            h == SharpeCheck(InSharpe)
        IN  /\ risk_out.risk_score = v.add + d.add + s.add + c.add + h.add
            /\ Len(risk_out.risk_factors) = 5
            /\ risk_out.risk_factors[1] \in {F_VolHigh, F_VolModHigh, F_VolMod, F_VolLow}
            /\ risk_out.risk_factors[2] \in {F_DdVeryHigh, F_DdHigh, F_DdMod, F_DdLow}
            /\ risk_out.risk_factors[3] \in {F_SecHigh, F_SecMod, F_SecLow}
            /\ risk_out.risk_factors[4] \in {F_CorrHigh, F_CorrMod, F_CorrLow}
            /\ risk_out.risk_factors[5] \in
                 {F_SharpeExcellent, F_SharpeGood, F_SharpePositive, F_SharpePoor}
            /\ risk_out.risk_factors = <<v.factor, d.factor, s.factor, c.factor, h.factor>>
            /\ risk_out.risk_score \in 0..11

\* C11's case: every check contributes its maximum and the score is 11; the
\* five messages are there.
C11_Witness ==
    /\ risk_out # NoResult
    /\ risk_out.risk_score = 11
    /\ risk_out.risk_factors =
         <<F_VolHigh, F_DdVeryHigh, F_SecHigh, F_CorrHigh, F_SharpePoor>>

\* The documented contributions (hundredths).
DocVolatility(x) == IF x > 40 THEN 3 ELSE IF x > 25 THEN 2 ELSE IF x > 15 THEN 1 ELSE 0
DocDrawdown(x) == IF x > 35 THEN 3 ELSE IF x > 20 THEN 2 ELSE IF x > 10 THEN 1 ELSE 0
DocCorrelation(sum, n) ==
    IF n > 0 /\ sum > 70 * n THEN 2 ELSE IF n > 0 /\ sum > 50 * n THEN 1 ELSE 0
DocSharpe(x) == IF x > 0 THEN 0 ELSE 1
DocSector(top, total) ==
    IF 100 * top > 50 * total THEN 2 ELSE IF 100 * top > 30 * total THEN 1 ELSE 0

ScoreOf(portfolio_risk, triu) ==
    assess_portfolio_risk(portfolio_risk, risk_in.sector_allocation, triu).risk_score

\* C12: the volatility, drawdown, correlation and Sharpe checks contribute
\* what the documented thresholds say, and risk_score does not decrease when
\* volatility, |max_drawdown| or the average correlation is raised with the
\* other arguments fixed.
C12_DocumentedThresholds ==
    risk_out # NoResult =>
        /\ risk_out.risk_score - SectorCheck(risk_in.sector_allocation).add =
             DocVolatility(InVolatility) + DocDrawdown(InDrawdown)
             + DocCorrelation(InCorrSum, InPairs) + DocSharpe(InSharpe)
        /\ risk_in.portfolio_risk # EmptyMetrics =>
             /\ \A x \in VolatilityChoices : x >= InVolatility =>
                  ScoreOf([risk_in.portfolio_risk EXCEPT !.volatility = x], risk_in.triu)
                    >= risk_out.risk_score
             /\ \A x \in DrawdownChoices : Abs(x) >= InDrawdown =>
                  ScoreOf([risk_in.portfolio_risk EXCEPT !.max_drawdown = x], risk_in.triu)
                    >= risk_out.risk_score
        /\ InDefined =>
             \A q \in TriuChoices :
                (Len(q) > 0 /\ SumSeq(q) * InPairs >= InCorrSum * Len(q)) =>
                    ScoreOf(risk_in.portfolio_risk, q) >= risk_out.risk_score

\* C12's case: volatility is exactly 0.40, which is not above 0.40, and the
\* volatility check has reported the 25-40% band.
C12_Witness ==
    /\ risk_out # NoResult
    /\ InVolatility = 40
    /\ risk_out.risk_factors[1] = F_VolModHigh
    /\ InDefined

\* C13: the sector check adds 2 and reports high concentration when the
\* largest sector's share of the summed allocation is above 0.50 (as for a
\* share of 80%), adds 1 and reports moderate concentration when it is
\* above 0.30 and at most 0.50, and adds 0 otherwise.
C13_SectorIncrement ==
    risk_out # NoResult =>
        LET inc == risk_out.risk_score
                   - (DocVolatility(InVolatility) + DocDrawdown(InDrawdown)
                      + DocCorrelation(InCorrSum, InPairs) + DocSharpe(InSharpe))
        IN  /\ inc = DocSector(InTop, InTotal)
            /\ risk_out.risk_factors[3] = F_SecHigh <=> inc = 2
            /\ risk_out.risk_factors[3] = F_SecMod <=> inc = 1
            /\ risk_out.risk_factors[3] = F_SecLow <=> inc = 0
            /\ 100 * InTop = 80 * InTotal => inc = 2

\* C13's case: the largest sector holds 80% of the allocation and the
\* sector factor is the high-concentration one.
C13_Witness ==
    /\ risk_out # NoResult
    /\ DOMAIN risk_in.sector_allocation # {}
    /\ 100 * InTop = 80 * InTotal
    /\ risk_out.risk_factors[3] = F_SecHigh

\* C14: the reduce-volatility recommendation is there exactly when
\* volatility > 0.40, the stop-loss one exactly when |max_drawdown| > 0.20
\* (the band above 0.35 included), the diversify-sectors one exactly when
\* the largest sector share is > 0.50, the add-uncorrelated-assets one
\* exactly when the average correlation is > 0.7, and the rebalance one
\* exactly when Sharpe <= 0.
C14_RecommendationMapping ==
    risk_out # NoResult =>
        LET recs == Elements(risk_out.recommendations)
        IN  /\ R_Volatility \in recs <=> InVolatility > 40
            /\ R_StopLoss \in recs <=> InDrawdown > 20
            /\ R_Sectors \in recs <=> 100 * InTop > 50 * InTotal
            /\ R_Uncorrelated \in recs <=> (InDefined /\ InCorrSum > 70 * InPairs)
            /\ R_Rebalance \in recs <=> InSharpe <= 0

FactorRecommendations ==
    {R_Volatility, R_StopLoss, R_Sectors, R_Uncorrelated, R_Rebalance}

\* C15: whatever the risk level, the recommendations end with a closing
\* remark for the level, and it is the only recommendation that is not one
\* of the five factor-derived ones.
C15_OneClosingRemark ==
    risk_out # NoResult =>
        LET recs == risk_out.recommendations
            closing == {i \in 1..Len(recs) : recs[i] \notin FactorRecommendations}
        IN  /\ Len(recs) >= 1
            /\ closing = {Len(recs)}
            /\ risk_out.risk_level = "aggressive" => recs[Len(recs)] = R_Aggressive
            /\ risk_out.risk_level = "conservative" => recs[Len(recs)] = R_Conservative

MetricFields ==
    {"mean_return", "volatility", "sharpe_ratio", "max_drawdown", "var_95",
     "expected_shortfall", "skewness", "kurtosis", "beta"}

\* C16: calculate_risk_metrics returns the empty result for a series of
\* fewer than 30 observations and a record of exactly the nine fields for a
\* series of 30 or more.
C16_ThirtyObservations ==
    rm_out # NoResult =>
        IF rm_in.n < 30
        THEN rm_out = EmptyMetrics
        ELSE DOMAIN rm_out = MetricFields

\* C16's case: a series of exactly 30 observations has been measured and
\* the nine fields are there.
C16_Witness ==
    /\ rm_out # NoResult
    /\ rm_in.n = 30
    /\ rm_out # EmptyMetrics
    /\ "beta" \in DOMAIN rm_out

MeasuredZero == [volatility |-> 0, max_drawdown |-> 0, sharpe_ratio |-> 0]

\* C17: when the weighted return series has fewer than 30 observations, the
\* risk assessment of the returned analysis is not the one a portfolio
\* measured at volatility 0, drawdown 0 and Sharpe 0 gets.
C17_UndefinedIsNotZero ==
    (/\ pf_out # NoResult
     /\ pf_out.status = "analysis"
     /\ pf_in.portfolio_returns.n < 30) =>
        pf_out.risk_assessment #
            assess_portfolio_risk(MeasuredZero, pf_out.sector_allocation, pf_in.triu)

\* C18: get_portfolio_analysis returns the no-data error for an empty list
\* of holdings, the no-metrics error when no holding yields a return series,
\* the two differ, and it returns no other error.
C18_TwoErrors ==
    pf_out # NoResult =>
        /\ Len(pf_in.holdings) = 0 =>
             (pf_out.status = "error" /\ pf_out.error = E_NoData)
        /\ (Len(pf_in.holdings) > 0 /\ Len(Resolved(pf_in.holdings)) = 0) =>
             (pf_out.status = "error" /\ pf_out.error = E_NoMetrics)
        /\ E_NoData # E_NoMetrics
        /\ pf_out.status = "error" => pf_out.error \in {E_NoData, E_NoMetrics}

\* C19: for two holdings whose return series are identical (equal standard
\* deviations, correlation 1), diversification_ratio is 1.0 to within a
\* hundredth, whatever the two values.
C19_NoDiversificationBenefit ==
    (/\ pf_out # NoResult
     /\ pf_out.status = "analysis"
     /\ Len(pf_in.holdings) = 2
     /\ pf_in.sd[1] = pf_in.sd[2]
     /\ pf_in.triu[1] = 100) =>
        LET r == pf_out.portfolio_metrics.diversification_ratio
        IN  100 * Abs(r.num - r.den) <= r.den

\* max(0.1, 1 - mae / mean_close), in hundredths.
ClaimedConfidence(s) ==
    LET mean_close == (CloseRange[s].lo + CloseRange[s].hi) \div 2
        c == 100 - (100 * EvaluationMae[s]) \div mean_close
    IN  IF c < 10 THEN 10 ELSE c

\* C20: for a predict call with days > 0 on a key with a live artifact, the
\* confidence predict's return statement attaches to the forecast is
\* max(0.1, 1 - mae / mean_close) of the artifact's evaluation and the
\* symbol's history, and lies in [0.1, 1.0].
C20_ConfidenceFromMae ==
    (/\ last.op = "predict"
     /\ last.days > 0
     /\ models[LastKey] # NoArt) =>
        LET f == Forecast([i \in 1..last.days |-> bars[last.symbol] + i])
        IN  /\ f.confidence = ClaimedConfidence(last.symbol)
            /\ f.confidence \in 10..100

\* C21: no operation removes or replaces a cached table, and a
\* get_stock_data call for a symbol whose table is cached returns that
\* table, not a recomputed one.
C21_CacheKeepsTables ==
    [][/\ \A s \in Symbols :
            data_cache[s] # NoTable => data_cache'[s] = data_cache[s]
       /\ (last'.op = "get_stock_data" /\ data_cache[last'.symbol] # NoTable) =>
            (last'.ret = Table(data_cache[last'.symbol]) /\ last'.path = "cache")]_vars

\* C21's case: get_stock_data has returned the cached table of a symbol
\* after the data source gained a bar, so a recomputed table would differ,
\* and training or prediction has run in between.
C21_Witness ==
    /\ last.op = "get_stock_data"
    /\ last.path = "cache"
    /\ last.ret.table.last_date < bars[last.symbol]
    /\ last.ret.table = data_cache[last.symbol]
    /\ runs > 0

\* C23: a get_stock_data call that computes the table of a symbol with
\* fewer than 50 bars returns an error to its caller, not a table.
C23_ShortHistorySignalled ==
    [][(/\ last'.op = "get_stock_data"
        /\ data_cache[last'.symbol] = NoTable
        /\ bars[last'.symbol] < 50) =>
            last'.ret.status = "error"]_vars

\* A frame with its indicator columns and without NaN rows.
Finished(data) == data # NoTable /\ DOMAIN data = {"symbol", "rows", "last_date"}

\* C22: while requests race on the series cache, every cached table and
\* every table a request has returned is fully augmented and NaN-dropped,
\* and once every request has returned, each symbol some request asked for
\* has its one complete table in the cache.
C22_CacheRace ==
    /\ \A s \in Symbols :
         data_cache[s] # NoTable =>
            (Finished(data_cache[s]) /\ data_cache[s] = Augment(s))
    /\ \A t \in Threads :
         th[t].ret # NoTable => (Finished(th[t].ret) /\ th[t].ret = Augment(th[t].symbol))
    /\ (\A t \in Threads : th[t].pc = "idle") =>
         \A t \in Threads : th[t].symbol # "" => Finished(data_cache[th[t].symbol])

\* C22's case: two requests missed the cache for the same symbol; one has
\* published its table and the other is about to publish its own.
C22_Witness ==
    \E t, u \in Threads :
        /\ t # u
        /\ th[t].pc = "store"
        /\ th[u].pc = "idle"
        /\ th[u].symbol = th[t].symbol
        /\ th[u].ret # NoTable
        /\ data_cache[th[t].symbol] = th[u].ret

\* C24: a price series of n >= 50 bars comes out of the indicator
\* augmentation with exactly n - 49 rows.
C24_RowsAfterAugmentation ==
    (call_out # NoResult /\ "kept" \in DOMAIN call_out /\ call_out.n >= SMA_LONG) =>
        Cardinality(call_out.kept) = call_out.n - (SMA_LONG - 1)

\* C25: the rows the indicator augmentation drops form a prefix of the
\* series: when the bar of a date is in the output, so is the bar of every
\* later date, also when the closes are flat for 14 bars or more.
C25_FrontTruncationOnly ==
    (call_out # NoResult /\ "kept" \in DOMAIN call_out) =>
        \A i \in call_out.kept :
            \A j \in i..(call_out.n - 1) : j \in call_out.kept

\* C26: prepare_data on n rows with lookback L fails when n < L + 1 and
\* otherwise emits n - L windows in temporal order, the k-th (from 0) being
\* rows k .. k+L-1 with the close of row k+L as its target.
C26_WindowsOrFailure ==
    (call_out # NoResult /\ "windows" \in DOMAIN call_out) =>
        LET n == call_in.rows
            L == call_in.lookback
        IN IF n < L + 1
           THEN call_out.raised
           ELSE /\ ~call_out.raised
                /\ Len(call_out.windows) = n - L
                /\ \A k \in 0..(n - L - 1) :
                     /\ call_out.windows[k + 1].X = [j \in 1..L |-> k + j - 1]
                     /\ call_out.windows[k + 1].y = k + L

\* The close is the fourth feature.
CloseFeature == CHOOSE f \in 1..Len(features) : features[f] = "Close"

\* Row r of the working window before step k: a row of the table, or a
\* synthetic row that copies the last known row and carries a prediction as
\* its close.
WorkingRow(r, recent) ==
    IF r <= recent
    THEN [f \in 1..Len(features) |-> Cell(r, f)]
    ELSE [f \in 1..Len(features) |->
            IF f = CloseFeature THEN Pred(r - recent) ELSE Cell(recent, f)]

\* The last L rows of the working window before step k, row after row.
WindowBefore(k, recent) ==
    LET size == recent + k - 1
        first == IF size > LOOKBACK THEN size - LOOKBACK + 1 ELSE 1
        count == size - first + 1
    IN  [p \in 1..(count * Len(features)) |->
            WorkingRow(first + ((p - 1) \div Len(features)), recent)
                      [((p - 1) % Len(features)) + 1]]

\* C27: at every step of the forecast loop the model is given the last 60
\* rows of the working window, which after each step gains a synthetic row
\* (the last row with the step's prediction as its close) and slides by one.
C27_SlidingWindow ==
    (call_out # NoResult /\ "inputs" \in DOMAIN call_out) =>
        \A k \in 1..Len(call_out.inputs) :
            call_out.inputs[k] = WindowBefore(k, call_out.recent)

\* C28: the scaler a trained artifact holds stays the one fitted on its own
\* symbol's data, whatever is trained or predicted afterwards for other
\* symbols or kinds: after a predict for a symbol, every artifact in memory
\* still scales with the statistics of its own symbol.
C28_ArtifactKeepsItsScaler ==
    last.op = "predict" =>
        \A key \in Keys :
            models[key] # NoArt =>
                Deref(models[key], scaler) = FitOn(Augment(key[1]))

\* C29 as stated: volatility above 0.40 or a drawdown beyond 0.35 makes the
\* risk level aggressive, whatever the other checks contribute.
C29_ExtremesAreAggressive ==
    (risk_out # NoResult /\ (InVolatility > 40 \/ InDrawdown > 35)) =>
        risk_out.risk_level = "aggressive"

\* C29, amended: volatility above 0.40 or a drawdown beyond 0.35 adds 3 to
\* the score, so the level is never conservative, and it is aggressive
\* exactly when the score of all five checks reaches 6.
C29_ExtremesAddThree ==
    (risk_out # NoResult /\ (InVolatility > 40 \/ InDrawdown > 35)) =>
        /\ risk_out.risk_score >= 3
        /\ risk_out.risk_level # "conservative"
        /\ (risk_out.risk_level = "aggressive" <=> risk_out.risk_score >= 6)

\* C29's case: volatility is above 0.40, the other checks add less than 3
\* and the level is moderate.
C29_Witness ==
    /\ risk_out # NoResult
    /\ InVolatility > 40
    /\ InDrawdown <= 35
    /\ risk_out.risk_factors[1] = F_VolHigh
    /\ risk_out.risk_level = "moderate"

\* C30: a portfolio with exactly one usable holding is analysed without
\* error; the correlation check adds nothing to the score and reports low
\* correlation, and the correlation matrix is the 1x1 matrix with 1 on its
\* diagonal.
C30_SingleUsableHolding ==
    (pf_out # NoResult /\ Len(Resolved(pf_in.holdings)) = 1) =>
        /\ pf_out.status = "analysis"
        /\ pf_out.risk_assessment.risk_factors[4] = F_CorrLow
        /\ LET pm == pf_out.portfolio_metrics
           IN  pf_out.risk_assessment.risk_score =
                   DocVolatility(Get(pm.portfolio_risk, "volatility"))
                   + DocDrawdown(Abs(Get(pm.portfolio_risk, "max_drawdown")))
                   + DocSharpe(Get(pm.portfolio_risk, "sharpe_ratio"))
                   + SectorCheck(pm.sector_allocation).add
        /\ pf_out.correlation_matrix = <<<<100>>>>

====
